---- MODULE Spec2Model ----
(***************************************************************************)
(* A model of zip-zap: the ZIP writer (src/src/write.ts), its CRC-32        *)
(* (crc32.ts) and the ZIP reader (src/src/read.ts).                        *)
(*                                                                         *)
(* Bytes are integers 0..255, byte buffers are sequences of bytes, and a   *)
(* stream is the sequence of chunks it still has to deliver.  The stream   *)
(* stages of an entry follow the WHATWG streams the code builds with       *)
(* pipeThrough: a TransformStream accepts one chunk in its writable side   *)
(* (high water mark 1) and its readable side hands a chunk on only when    *)
(* the next stage asks for one.  The pipes start when the entry is         *)
(* constructed, not when build() is called.                                *)
(***************************************************************************)
EXTENDS Integers, Sequences, FiniteSets, TLC

(***************************************************************************)
(* Bounds of the model.                                                    *)
(***************************************************************************)
\* the number of entries a writer is given
MaxEntries == 2
\* the largest number of bytes the compression transform emits in one chunk
MaxOutChunk == 3
\* the number of source streams and compression transforms that fail
MaxFailures == 1
\* the longest byte sequence a checksum is computed of, and the number of chunks
\* it is split into
MaxCrcLen == 3
MaxCrcChunks == 3
\* the largest offset given to ZipLocalHeader.fromData
MaxHeaderOffset == 5

(***************************************************************************)
(* Sequences and integers.                                                 *)
(***************************************************************************)
RECURSIVE SumSeq(_)
SumSeq(s) == IF s = <<>> THEN 0 ELSE Head(s) + SumSeq(Tail(s))

RECURSIVE Flatten(_)
Flatten(ss) == IF ss = <<>> THEN <<>> ELSE Head(ss) \o Flatten(Tail(ss))

Max(a, b) == IF a >= b THEN a ELSE b

Slice(s, from, to) ==
    \* Blob.slice(from, to) and typed array views: bytes from..to-1 (0-based),
    \* clamped to the buffer
    LET lo == Max(from, 0)
        hi == IF to > Len(s) THEN Len(s) ELSE to
    IN  IF hi <= lo THEN <<>> ELSE SubSeq(s, lo + 1, hi)

Pow2_8 == 256
Pow2_16 == 65536

RECURSIVE Xor(_, _)
Xor(a, b) ==
    \* bitwise exclusive or of two non-negative integers
    IF a = 0 THEN b
    ELSE IF b = 0 THEN a
    ELSE ((a + b) % 2) + 2 * Xor(a \div 2, b \div 2)

(***************************************************************************)
(* 32-bit words.  A 32-bit value that can exceed the range of the          *)
(* checker's integers (a CRC) is kept as <<high half, low half>>, two      *)
(* 16-bit numbers; only its bits matter to the code, which stores it with  *)
(* setUint32.  Sizes, offsets and signatures are plain numbers.            *)
(***************************************************************************)
Word(hi, lo) == <<hi, lo>>
WordZero == <<0, 0>>
WordXor(v, w) == <<Xor(v[1], w[1]), Xor(v[2], w[2])>>
WordNot(w) == <<Pow2_16 - 1 - w[1], Pow2_16 - 1 - w[2]>>
\* w >>> n for n < 16, with m = 2^n
WordShiftRight(w, m) == <<w[1] \div m, (w[1] % m) * (Pow2_16 \div m) + (w[2] \div m)>>

(***************************************************************************)
(* crc32.ts                                                                *)
(***************************************************************************)
\* 0xedb88320
PolynomialHigh == 60856
PolynomialLow == 33568

RECURSIVE TableStep(_, _)
TableStep(t, j) ==
    IF j = 0 THEN t
    ELSE TableStep(IF t[2] % 2 = 1
                   THEN WordXor(WordShiftRight(t, 2), Word(PolynomialHigh, PolynomialLow))
                   ELSE WordShiftRight(t, 2),
                   j - 1)

table == [i \in 0..255 |-> TableStep(Word(0, i), 8)]

RECURSIVE crc32Loop(_, _)
crc32Loop(x, data) ==
    IF data = <<>> THEN x
    ELSE crc32Loop(WordXor(WordShiftRight(x, Pow2_8),
                           table[Xor(x[2] % Pow2_8, Head(data))]),
                   Tail(data))

\* a variant of crc32: the accumulator passed in is not complemented first
crc32Raw(crc, data) == WordNot(crc32Loop(crc, data))

crc32(crc, data) == WordNot(crc32Loop(WordNot(crc), data))

(***************************************************************************)
(* DataView: little-endian fields.                                         *)
(***************************************************************************)
setUint16(v) == LET u == v % Pow2_16 IN <<u % Pow2_8, u \div Pow2_8>>
\* a number below 2^31
setUint32(v) == setUint16(v % Pow2_16) \o setUint16(v \div Pow2_16)
\* a 32-bit word
setUint32Word(w) == setUint16(w[2]) \o setUint16(w[1])

InRange(view, offset, n) == offset >= 0 /\ offset + n <= Len(view)
getUint16(view, offset) == view[offset + 1] + Pow2_8 * view[offset + 2]
\* a field whose value is below 2^31: a signature, a size, an offset
getUint32(view, offset) == getUint16(view, offset) + Pow2_16 * getUint16(view, offset + 2)
\* a field that uses all 32 bits
getUint32Word(view, offset) == Word(getUint16(view, offset + 2), getUint16(view, offset))

(***************************************************************************)
(* TextEncoder / TextDecoder: strings are sequences of Unicode scalar      *)
(* values below U+10000.                                                   *)
(***************************************************************************)
RECURSIVE toUtf8(_)
toUtf8(str) ==
    IF str = <<>> THEN <<>>
    ELSE LET c == Head(str)
             enc == IF c < 128 THEN <<c>>
                    ELSE IF c < 2048 THEN <<192 + (c \div 64), 128 + (c % 64)>>
                    ELSE <<224 + (c \div 4096), 128 + ((c \div 64) % 64), 128 + (c % 64)>>
         IN  enc \o toUtf8(Tail(str))

RECURSIVE fromUtf8(_)
fromUtf8(data) ==
    IF data = <<>> THEN <<>>
    ELSE LET b == Head(data)
         IN  IF b < 128 THEN <<b>> \o fromUtf8(Tail(data))
             ELSE IF b >= 192 /\ b < 224 /\ Len(data) >= 2
               THEN <<(b - 192) * 64 + (data[2] - 128)>> \o fromUtf8(SubSeq(data, 3, Len(data)))
             ELSE IF b >= 224 /\ b < 240 /\ Len(data) >= 3
               THEN <<(b - 224) * 4096 + (data[2] - 128) * 64 + (data[3] - 128)>>
                    \o fromUtf8(SubSeq(data, 4, Len(data)))
             ELSE <<65533>> \o fromUtf8(Tail(data))

(***************************************************************************)
(* The host's "deflate-raw" CompressionStream and DecompressionStream: an  *)
(* opaque pair of mutually inverse transforms.  The compressed form is a   *)
(* block header byte, the complemented bytes, and an end byte.             *)
(***************************************************************************)
DeflateHead == 1
DeflateEnd == 0
Deflate(bytes) == <<DeflateHead>> \o [i \in 1..Len(bytes) |-> 255 - bytes[i]] \o <<DeflateEnd>>
Inflate(bytes) ==
    IF Len(bytes) < 2 THEN <<>>
    ELSE [i \in 1..(Len(bytes) - 2) |-> 255 - bytes[i + 1]]

RECURSIVE Chunked(_)
Chunked(bytes) ==
    \* the chunks in which the compression transform emits its output
    IF Len(bytes) <= MaxOutChunk THEN IF bytes = <<>> THEN <<>> ELSE <<bytes>>
    ELSE <<SubSeq(bytes, 1, MaxOutChunk)>> \o Chunked(SubSeq(bytes, MaxOutChunk + 1, Len(bytes)))

(***************************************************************************)
(* The inputs of the model.                                                *)
(***************************************************************************)
\* entry names: "a" and "éb" (U+00E9 takes two bytes in UTF-8)
Names == {<<97>>, <<233, 98>>}
\* string contents: "" and "Hé"
Strings == {<<>>, <<72, 233>>}
\* the body of a response: two chunks
Bodies == {<<<<1>>, <<2, 3>>>>}
\* Content-Length header values: absent, "1", "5".  headers.get gives null for
\* an absent header and "" for an empty one; line 140 takes both as absent, and
\* NoHeader stands for both
NoHeader == <<>>
ContentLengths == {NoHeader, <<49>>, <<53>>}
\* and the values "-1", "x" and "1x"
OtherContentLengths == {<<45, 49>>, <<120>>, <<49, 120>>}
\* the ZipEntryOptions argument of an add call: absent, or {compressed: b}
NoEntryOptions == <<>>
EntryOptions(b) == [compressed |-> b]

BlobStream(bytes) ==
    \* the chunks in which a Blob's stream() delivers its bytes: all at once, or
    \* the first byte and then the rest; no chunk for an empty blob
    IF bytes = <<>> THEN {<<>>}
    ELSE {<<bytes>>} \cup
         (IF Len(bytes) > 1 THEN {<<SubSeq(bytes, 1, 1), SubSeq(bytes, 2, Len(bytes))>>} ELSE {})

(***************************************************************************)
(* write.ts: class ZipEntry                                                *)
(***************************************************************************)
FlagUtf8 == 2048
MethodDeflate == 8
MethodStored == 0
LocalHeaderSignature == 67324752
DirectorySignature == 33639248
FooterSignature == 101010256
VersionNeeded == 20
LocalHeaderSize == 30
DirectoryHeaderSize == 46
FooterSize == 22

\* line 40: options?.compressed ?? true
CompressedOf(entryOptions) ==
    IF entryOptions = NoEntryOptions THEN TRUE ELSE entryOptions.compressed

\* a variant of ZipEntry: the method keeps the value of its field initialiser
ZipEntryMethodDefault(name, streamSizeGuess, compressed) ==
    [rawName |-> toUtf8(name),
     flags |-> FlagUtf8,
     method |-> MethodDeflate,
     compressedSize |-> 0,
     uncompressedSize |-> 0,
     streamSizeGuess |-> streamSizeGuess,
     crc32 |-> WordZero,
     progressCallback |-> FALSE]

\* new ZipEntry(name, stream, streamSizeGuess, options): the fields
ZipEntry(name, streamSizeGuess, compressed) ==
    [rawName |-> toUtf8(name),
     flags |-> FlagUtf8,
     method |-> IF compressed THEN MethodDeflate ELSE MethodStored,
     compressedSize |-> 0,
     uncompressedSize |-> 0,
     streamSizeGuess |-> streamSizeGuess,
     crc32 |-> WordZero,
     progressCallback |-> FALSE]

\* new ZipEntry(...): the stream chain built over the source stream.
\*   source   the chunks the source stream has still to deliver
\*   zbuf     the bytes the compression transform has taken in
\*   flushed  the compression transform has emitted its output
\*   aq       the chunks waiting for the accounting transform
\*   data     the bytes read out of compressedStream
\*   state    "readable" or "errored"; error names the failure
\*   locked   a consumer has taken compressedStream
PipeThrough(stream, compressed) ==
    [source |-> stream,
     compressed |-> compressed,
     zbuf |-> <<>>,
     flushed |-> FALSE,
     aq |-> <<>>,
     data |-> <<>>,
     state |-> "readable",
     error |-> "",
     locked |-> FALSE]

entrySize(e) == LocalHeaderSize + Len(e.rawName) + e.compressedSize

\* a variant of LocalHeader: the general purpose flags are written as 0
LocalHeaderNoFlags(e) ==
    setUint32(LocalHeaderSignature) \o setUint16(VersionNeeded) \o setUint16(0)
    \o setUint16(e.method) \o setUint16(0) \o setUint16(0)
    \o setUint32Word(e.crc32) \o setUint32(e.compressedSize) \o setUint32(e.uncompressedSize)
    \o setUint16(Len(e.rawName)) \o setUint16(0)

\* entryParts(), lines 82-94: the header
LocalHeader(e) ==
    setUint32(LocalHeaderSignature) \o setUint16(VersionNeeded) \o setUint16(e.flags)
    \o setUint16(e.method) \o setUint16(0) \o setUint16(0)
    \o setUint32Word(e.crc32) \o setUint32(e.compressedSize) \o setUint32(e.uncompressedSize)
    \o setUint16(Len(e.rawName)) \o setUint16(0)

directorySize(e) == DirectoryHeaderSize + Len(e.rawName)

directoryParts(e, entryHeaderOffset) ==
    setUint32(DirectorySignature) \o setUint16(VersionNeeded) \o setUint16(VersionNeeded)
    \o setUint16(e.flags) \o setUint16(e.method) \o setUint16(0) \o setUint16(0)
    \o setUint32Word(e.crc32) \o setUint32(e.compressedSize) \o setUint32(e.uncompressedSize)
    \o setUint16(Len(e.rawName)) \o setUint16(0) \o setUint16(0)
    \o setUint16(0) \o setUint16(0) \o setUint32(0)
    \o setUint32(entryHeaderOffset)
    \o e.rawName

(***************************************************************************)
(* write.ts: class ZipSource                                               *)
(***************************************************************************)
IsDigit(c) == c >= 48 /\ c <= 57

RECURSIVE ParseDigits(_, _)
ParseDigits(str, acc) ==
    IF str = <<>> \/ ~IsDigit(Head(str)) THEN acc
    ELSE ParseDigits(Tail(str), 10 * acc + (Head(str) - 48))

\* parseInt(str): <<>> for NaN, <<n>> for the integer n
parseInt(str) ==
    LET neg == str # <<>> /\ Head(str) = 45
        rest == IF str # <<>> /\ Head(str) \in {43, 45} THEN Tail(str) ELSE str
    IN  IF rest = <<>> \/ ~IsDigit(Head(rest)) THEN <<>>
        ELSE <<IF neg THEN 0 - ParseDigits(rest, 0) ELSE ParseDigits(rest, 0)>>

\* a source is [ok, error, stream, expectedSize]; expectedSize <<>> is undefined
NewZipSource(stream, expectedSize) ==
    [ok |-> TRUE, error |-> "", stream |-> stream, expectedSize |-> expectedSize]
Thrown(message) ==
    [ok |-> FALSE, error |-> message, stream |-> <<>>, expectedSize |-> <<>>]

\* a variant of fromBlob: the expected size is the number of chunks
fromBlobChunkCount(chunks) == NewZipSource(chunks, <<Len(chunks)>>)

fromBlob(chunks) == NewZipSource(chunks, <<Len(Flatten(chunks))>>)

fromResponse(response) ==
    IF ~response.hasBody THEN Thrown("Response body is missing")
    ELSE IF response.contentLength # NoHeader
      THEN LET contentLengthInt == parseInt(response.contentLength)
           IN  IF contentLengthInt = <<>> THEN Thrown("Invalid Content-Length header")
               ELSE IF contentLengthInt[1] < 0 THEN Thrown("Content-Length header is negative")
               ELSE NewZipSource(response.body, contentLengthInt)
    ELSE NewZipSource(response.body, <<>>)

\* the default value of the constructor's streamSizeGuess parameter
GuessOf(expectedSize) == IF expectedSize = <<>> THEN 0 ELSE expectedSize[1]

(***************************************************************************)
(* The state.                                                              *)
(***************************************************************************)
VARIABLES
    entries,        \* ZipWriter.entries: the ZipEntry objects, in insertion order
    streams,        \* the stream chain of each entry (compressedStream)
    addError,       \* the error thrown by the last add call, "" if it returned
    options,        \* the BuildOptions of the build() call: which callbacks are given
    entryProgress,  \* build()'s local array entryProgress; <<>> while undefined
    buildState,     \* "idle", "running", "resolved" or "rejected"
    buildError,     \* the error build() rejected with
    partsState,     \* per entry, the promise of entryParts(): "pending", "fulfilled", "rejected"
    parts,          \* per entry, the value of entryParts(): <<header, rawName, data>>
    archive,        \* the bytes of the Blob build() resolved with
    added,          \* history: the (name, content) pairs given to the add calls
    calls,          \* history: the invocations of the callbacks
    doneOrder,      \* history: the order in which the entryParts() calls fulfilled
    reader,         \* the ZipReader and the position of its entries() iteration
    crcRun,         \* a computation of crc32 over the chunks of a byte sequence
    headerRead,     \* a call of ZipLocalHeader.fromData and its outcome
    rebuild         \* a further build() call on the writer and its outcome

writerVars == <<entries, streams, addError, options, entryProgress, buildState,
                buildError, partsState, parts, archive, added, calls, doneOrder>>
\* the variables that the adds, the first build() and the reader leave alone
unitVars == <<crcRun, headerRead, rebuild>>
vars == <<entries, streams, addError, options, entryProgress, buildState,
          buildError, partsState, parts, archive, added, calls, doneOrder, reader,
          crcRun, headerRead, rebuild>>

NoOptions == [progress |-> FALSE, entryProgress |-> FALSE]
BuildOptions == [progress : BOOLEAN, entryProgress : BOOLEAN]

\* calls.callback[i]  the arguments of the last call of entry i's progressCallback
\* calls.entry[i]     the arguments of the last options.entryProgress(i, ...) call
\* calls.progress     the arguments of the last options.progress(...) call
\* (<<>> when there was no call), and the number of calls of each kind
NoCalls ==
    [callback |-> <<>>, entry |-> <<>>, progress |-> <<>>,
     nCallback |-> 0, nEntry |-> 0, nProgress |-> 0]

\* crcRun: the bytes, the chunks they were split into, the chunks still to come,
\* the bytes of the chunks gone through, and the accumulator
NoCrcRun == [whole |-> <<>>, split |-> <<>>, chunks |-> <<>>, done |-> <<>>, acc |-> WordZero]
NoRebuild == [state |-> "none", error |-> "", archive |-> <<>>]
NoHeaderRead == [pc |-> "none", view |-> <<>>, offset |-> 0, result |-> <<>>]

NoReader ==
    [pc |-> "none", data |-> <<>>, corruptAt |-> -1, footer |-> <<>>, footerRead |-> FALSE,
     directoryRead |-> FALSE, dirView |-> <<>>, dataOffset |-> 0, yielded |-> <<>>,
     error |-> ""]

WriterInit ==
    /\ entries = <<>>
    /\ streams = <<>>
    /\ addError = ""
    /\ options = NoOptions
    /\ entryProgress = <<>>
    /\ buildState = "idle"
    /\ buildError = ""
    /\ partsState = <<>>
    /\ parts = <<>>
    /\ archive = <<>>
    /\ added = <<>>
    /\ calls = NoCalls
    /\ doneOrder = <<>>

Init ==
    /\ WriterInit
    /\ reader = NoReader
    /\ crcRun = NoCrcRun
    /\ headerRead = NoHeaderRead
    /\ rebuild = NoRebuild

Indices == 1..Len(entries)

(***************************************************************************)
(* write.ts: ZipWriter.add, addString, addBlob, addResponse                *)
(***************************************************************************)
\* history: the kind of source an entry was added from, and the Content-Length
\* header of a response
Origin(kind, contentLength) == [kind |-> kind, contentLength |-> contentLength]

CanAdd == buildState = "idle" /\ Len(entries) < MaxEntries

add(name, data, entryOptions, origin) ==
    /\ entries' = Append(entries, ZipEntry(name, GuessOf(data.expectedSize),
                                           CompressedOf(entryOptions)))
    /\ streams' = Append(streams, PipeThrough(data.stream, CompressedOf(entryOptions)))
    /\ added' = Append(added, [name |-> name, content |-> Flatten(data.stream),
                               options |-> entryOptions, origin |-> origin])
    /\ calls' = [calls EXCEPT !.callback = Append(@, <<>>), !.entry = Append(@, <<>>)]
    /\ addError' = ""

addFrom(name, data, entryOptions, origin) ==
    \* the source constructor runs first: when it throws, add is never reached
    IF data.ok
    THEN add(name, data, entryOptions, origin)
    ELSE /\ addError' = data.error
         /\ UNCHANGED <<entries, streams, added, calls>>

AddString(name, data, entryOptions) ==
    /\ CanAdd
    /\ \E chunks \in BlobStream(toUtf8(data)) :
         addFrom(name, fromBlob(chunks), entryOptions, Origin("string", NoHeader))
    /\ UNCHANGED <<options, entryProgress, buildState, buildError, partsState, parts,
                   archive, doneOrder, reader, unitVars>>

AddBlob(name, blob, entryOptions) ==
    /\ CanAdd
    /\ \E chunks \in BlobStream(blob) :
         addFrom(name, fromBlob(chunks), entryOptions, Origin("blob", NoHeader))
    /\ UNCHANGED <<options, entryProgress, buildState, buildError, partsState, parts,
                   archive, doneOrder, reader, unitVars>>

AddResponse(name, response, entryOptions) ==
    /\ CanAdd
    /\ addFrom(name, fromResponse(response), entryOptions,
               Origin("response", response.contentLength))
    /\ UNCHANGED <<options, entryProgress, buildState, buildError, partsState, parts,
                   archive, doneOrder, reader, unitVars>>

(***************************************************************************)
(* write.ts: the transforms of the ZipEntry constructor, one chunk a step  *)
(***************************************************************************)
SourceError == "source failed"
CompressionError == "compression failed"
TypeError == "TypeError: Cannot read properties of undefined"

\* an error in any stage errors the whole chain and discards what is in flight
Errored(s, err) ==
    [s EXCEPT !.state = "errored", !.error = err, !.source = <<>>, !.aq = <<>>]

\* the next stage has room for the chunk the measurement transform hands on: the
\* compression transform takes every chunk in and emits nothing before its
\* flush; the accounting transform holds one chunk until compressedStream is read
DownstreamReady(s) == s.compressed \/ s.aq = <<>>

\* a variant of AssignProgress: only bytesWritten is assigned
AssignProgressWritten(index, bytesWritten, totalBytes) ==
    [entryProgress EXCEPT ![index].bytesWritten = bytesWritten]

\* build()'s entry.progressCallback, lines 195-207: the array after Object.assign
AssignProgress(index, bytesWritten, totalBytes) ==
    [entryProgress EXCEPT ![index] = [bytesWritten |-> bytesWritten, totalBytes |-> totalBytes]]

totalBytesWritten(progress) == SumSeq([k \in 1..Len(progress) |-> progress[k].bytesWritten])
\* a variant of totalBytesExpected: the sum of the size hints
totalBytesGuessed(progress) ==
    SumSeq([k \in 1..Len(progress) |-> entries[k].streamSizeGuess])

totalBytesExpected(progress) == SumSeq([k \in 1..Len(progress) |-> progress[k].totalBytes])

\* the array entryProgress exists only when options.progress was given (line 185)
EntryProgressDefined == options.progress

\* the measurement transform, lines 47-56
Measure(i) ==
    LET e == entries[i]
        s == streams[i]
        chunk == Head(s.source)
        size == e.uncompressedSize + Len(chunk)
        totalBytes == Max(e.streamSizeGuess, size)
        called == [calls EXCEPT
                     !.callback[i] = <<size, totalBytes>>,
                     !.nCallback = @ + 1,
                     !.entry[i] = IF options.entryProgress THEN <<size, totalBytes>> ELSE @,
                     !.nEntry = IF options.entryProgress THEN @ + 1 ELSE @]
    IN  /\ i \in Indices
        /\ s.state = "readable"
        /\ s.source # <<>>
        /\ DownstreamReady(s)
        /\ IF e.progressCallback /\ ~EntryProgressDefined
           THEN \* Object.assign(entryProgress![index], ...) throws inside transform()
                /\ entries' = [entries EXCEPT ![i].uncompressedSize = size]
                /\ streams' = [streams EXCEPT ![i] = Errored(s, TypeError)]
                /\ calls' = called
                /\ UNCHANGED entryProgress
           ELSE /\ entries' = [entries EXCEPT ![i].uncompressedSize = size,
                                              ![i].crc32 = crc32(e.crc32, chunk)]
                /\ streams' = [streams EXCEPT
                                 ![i].source = Tail(s.source),
                                 ![i].zbuf = IF s.compressed THEN @ \o chunk ELSE @,
                                 ![i].aq = IF s.compressed THEN @ ELSE <<chunk>>]
                /\ IF e.progressCallback
                   THEN LET assigned == AssignProgress(i, size, totalBytes)
                        IN  /\ entryProgress' = assigned
                            /\ calls' = [called EXCEPT
                                           !.progress = <<totalBytesWritten(assigned),
                                                          totalBytesExpected(assigned)>>,
                                           !.nProgress = @ + 1]
                   ELSE UNCHANGED <<entryProgress, calls>>
        /\ UNCHANGED <<addError, options, buildState, buildError, partsState, parts,
                       archive, added, doneOrder, reader, unitVars>>

\* CompressionStream("deflate-raw"): the source has closed, the output is emitted
Flush(i) ==
    LET s == streams[i]
    IN  /\ i \in Indices
        /\ s.state = "readable"
        /\ s.compressed
        /\ s.source = <<>>
        /\ ~s.flushed
        /\ streams' = [streams EXCEPT ![i].aq = Chunked(Deflate(s.zbuf)), ![i].flushed = TRUE]
        /\ UNCHANGED <<entries, addError, options, entryProgress, buildState, buildError,
                       partsState, parts, archive, added, calls, doneOrder, reader, unitVars>>

\* a variant of Account: the transform counts into the writer's first entry
AccountFirstEntry(i) ==
    LET s == streams[i]
        chunk == Head(s.aq)
    IN  /\ i \in Indices
        /\ s.state = "readable"
        /\ s.locked
        /\ s.aq # <<>>
        /\ entries' = [entries EXCEPT ![1].compressedSize = @ + Len(chunk)]
        /\ streams' = [streams EXCEPT ![i].aq = Tail(s.aq), ![i].data = @ \o chunk]
        /\ UNCHANGED <<addError, options, entryProgress, buildState, buildError,
                       partsState, parts, archive, added, calls, doneOrder, reader, unitVars>>

\* the accounting transform, lines 66-69; it runs when compressedStream is read
Account(i) ==
    LET s == streams[i]
        chunk == Head(s.aq)
    IN  /\ i \in Indices
        /\ s.state = "readable"
        /\ s.locked
        /\ s.aq # <<>>
        /\ entries' = [entries EXCEPT ![i].compressedSize = @ + Len(chunk)]
        /\ streams' = [streams EXCEPT ![i].aq = Tail(s.aq), ![i].data = @ \o chunk]
        /\ UNCHANGED <<addError, options, entryProgress, buildState, buildError,
                       partsState, parts, archive, added, calls, doneOrder, reader, unitVars>>

\* a failure of a source stream or of a compression transform
Failed(s) == s.error \in {SourceError, CompressionError}
CanFail == Cardinality({k \in Indices : Failed(streams[k])}) < MaxFailures

\* the source stream fails before it has delivered all its chunks
SourceFail(i) ==
    LET s == streams[i]
    IN  /\ i \in Indices
        /\ s.state = "readable"
        /\ s.source # <<>>
        /\ CanFail
        /\ streams' = [streams EXCEPT ![i] = Errored(s, SourceError)]
        /\ UNCHANGED <<entries, addError, options, entryProgress, buildState, buildError,
                       partsState, parts, archive, added, calls, doneOrder, reader, unitVars>>

\* the compression transform fails, on a chunk or on its flush
CompressFail(i) ==
    LET s == streams[i]
    IN  /\ i \in Indices
        /\ s.state = "readable"
        /\ s.compressed
        /\ ~s.flushed
        /\ CanFail
        /\ streams' = [streams EXCEPT ![i] = Errored(s, CompressionError)]
        /\ UNCHANGED <<entries, addError, options, entryProgress, buildState, buildError,
                       partsState, parts, archive, added, calls, doneOrder, reader, unitVars>>

(***************************************************************************)
(* write.ts: ZipWriter.build and ZipEntry.entryParts                       *)
(***************************************************************************)
\* a variant of StreamClosed: entryParts() does not wait for the stream to end
StreamNotAwaited(s) == s.state = "readable"

\* new Response(this.compressedStream).blob() has resolved: the chain has closed
\* and every chunk has been read
StreamClosed(s) ==
    /\ s.state = "readable"
    /\ s.source = <<>>
    /\ s.aq = <<>>
    /\ s.compressed => s.flushed

\* build(options), lines 184-210, up to the await: the array of progress records,
\* the callback of every entry, and the start of every entryParts()
Build(opts) ==
    /\ buildState = "idle"
    /\ options' = opts
    /\ entryProgress' =
         IF opts.progress
         THEN [k \in Indices |-> [bytesWritten |-> 0, totalBytes |-> entries[k].streamSizeGuess]]
         ELSE <<>>
    /\ entries' = [k \in Indices |->
                     [entries[k] EXCEPT !.progressCallback = opts.progress \/ opts.entryProgress]]
    /\ streams' = [k \in Indices |-> [streams[k] EXCEPT !.locked = TRUE]]
    /\ partsState' = [k \in Indices |-> "pending"]
    /\ parts' = [k \in Indices |-> <<>>]
    /\ buildState' = "running"
    /\ UNCHANGED <<addError, buildError, archive, added, calls, doneOrder, reader, unitVars>>

\* entryParts(), lines 80-95, after its await
EntryPartsDone(i) ==
    /\ i \in Indices
    /\ buildState \in {"running", "rejected"}
    /\ partsState[i] = "pending"
    /\ streams[i].locked
    /\ StreamClosed(streams[i])
    /\ parts' = [parts EXCEPT ![i] = <<LocalHeader(entries[i]), entries[i].rawName,
                                        streams[i].data>>]
    /\ partsState' = [partsState EXCEPT ![i] = "fulfilled"]
    /\ doneOrder' = Append(doneOrder, i)
    /\ UNCHANGED <<entries, streams, addError, options, entryProgress, buildState,
                   buildError, archive, added, calls, reader, unitVars>>

\* a variant of EntryPartsReject: the error is caught and the parts are returned
EntryPartsRejectSwallowed(i) ==
    /\ i \in Indices
    /\ buildState \in {"running", "rejected"}
    /\ partsState[i] = "pending"
    /\ streams[i].locked
    /\ streams[i].state = "errored"
    /\ parts' = [parts EXCEPT ![i] = <<LocalHeader(entries[i]), entries[i].rawName,
                                        streams[i].data>>]
    /\ partsState' = [partsState EXCEPT ![i] = "fulfilled"]
    /\ doneOrder' = Append(doneOrder, i)
    /\ UNCHANGED <<entries, streams, addError, options, entryProgress, buildState,
                   buildError, archive, added, calls, reader, unitVars>>

\* entryParts() rejects: its stream has errored.  Promise.all rejects with the
\* first rejection, and so does build()
EntryPartsReject(i) ==
    /\ i \in Indices
    /\ buildState \in {"running", "rejected"}
    /\ partsState[i] = "pending"
    /\ streams[i].locked
    /\ streams[i].state = "errored"
    /\ partsState' = [partsState EXCEPT ![i] = "rejected"]
    /\ IF buildState = "running"
       THEN buildState' = "rejected" /\ buildError' = streams[i].error
       ELSE UNCHANGED <<buildState, buildError>>
    /\ UNCHANGED <<entries, streams, addError, options, entryProgress, parts, archive,
                   added, calls, doneOrder, reader, unitVars>>

\* a variant of EntryPartsInOrder: the parts in the order the entries finished
EntryPartsAsFinished(ps) ==
    Flatten([k \in 1..Len(ps) |->
               ps[doneOrder[k]][1] \o ps[doneOrder[k]][2] \o ps[doneOrder[k]][3]])

\* lines 191-213: the parts of the entries, in the order of this.entries
EntryPartsInOrder(ps) == Flatten([k \in 1..Len(ps) |-> ps[k][1] \o ps[k][2] \o ps[k][3]])

\* a variant of DirectoryLoop: the offset is advanced before the record is written
RECURSIVE DirectoryLoopOffsetFirst(_, _, _, _)
DirectoryLoopOffsetFirst(es, bytes, offset, dirSize) ==
    IF es = <<>> THEN [bytes |-> bytes, offset |-> offset, directorySize |-> dirSize]
    ELSE DirectoryLoopOffsetFirst(Tail(es),
                                  bytes \o directoryParts(Head(es), offset + entrySize(Head(es))),
                                  offset + entrySize(Head(es)),
                                  dirSize + directorySize(Head(es)))

\* lines 215-221: the loop over this.entries; the result is the directory bytes,
\* the final offset and the final directorySize
RECURSIVE DirectoryLoop(_, _, _, _)
DirectoryLoop(es, bytes, offset, dirSize) ==
    IF es = <<>> THEN [bytes |-> bytes, offset |-> offset, directorySize |-> dirSize]
    ELSE DirectoryLoop(Tail(es),
                       bytes \o directoryParts(Head(es), offset),
                       offset + entrySize(Head(es)),
                       dirSize + directorySize(Head(es)))

\* a variant of Footer: the count of entries on this disk is left 0
FooterTotalOnly(count, dirSize, offset) ==
    setUint32(FooterSignature) \o setUint16(0) \o setUint16(0)
    \o setUint16(0) \o setUint16(count)
    \o setUint32(dirSize) \o setUint32(offset) \o setUint16(0)

\* lines 223-232
Footer(count, dirSize, offset) ==
    setUint32(FooterSignature) \o setUint16(0) \o setUint16(0)
    \o setUint16(count) \o setUint16(count)
    \o setUint32(dirSize) \o setUint32(offset) \o setUint16(0)

BuildBlob(es, ps) ==
    LET dir == DirectoryLoop(es, <<>>, 0, 0)
    IN  EntryPartsInOrder(ps) \o dir.bytes \o Footer(Len(es), dir.directorySize, dir.offset)

\* build(), lines 211-233, after Promise.all has fulfilled
BuildAssemble ==
    /\ buildState = "running"
    /\ \A k \in Indices : partsState[k] = "fulfilled"
    /\ archive' = BuildBlob(entries, parts)
    /\ buildState' = "resolved"
    /\ UNCHANGED <<entries, streams, addError, options, entryProgress, buildError,
                   partsState, parts, added, calls, doneOrder, reader, unitVars>>

(***************************************************************************)
(* read.ts                                                                 *)
(***************************************************************************)
FooterSignatureError == "Invalid ZIP footer signature"
DirectorySignatureError == "Invalid ZIP directory entry signature"
RangeError == "RangeError: Offset is outside the bounds of the DataView"

\* a variant of FooterSignatureOk: only the low half ("PK") is compared
FooterSignatureLowHalf(view) == getUint16(view, 0) = FooterSignature % Pow2_16

\* the test of line 68
FooterSignatureOk(view) == getUint32(view, 0) = FooterSignature

\* new ZipFooter(view), lines 67-78
ZipFooter(view) ==
    IF ~InRange(view, 0, FooterSize) THEN [ok |-> FALSE, error |-> RangeError]
    ELSE IF ~FooterSignatureOk(view)
      THEN [ok |-> FALSE, error |-> FooterSignatureError]
    ELSE [ok |-> TRUE,
          error |-> "",
          diskNumber |-> getUint16(view, 4),
          diskStart |-> getUint16(view, 6),
          diskEntries |-> getUint16(view, 8),
          totalEntries |-> getUint16(view, 10),
          directorySize |-> getUint32(view, 12),
          directoryOffset |-> getUint32(view, 16),
          commentLength |-> getUint16(view, 20)]

\* a variant of DirectorySignatureOk: only the high half is compared
DirectorySignatureHighHalf(data, offset) ==
    getUint16(data, offset + 2) = DirectorySignature \div Pow2_16

\* the test of line 128
DirectorySignatureOk(data, offset) == getUint32(data, offset) = DirectorySignature

\* new ZipDirectoryEntry(data, offset), lines 127-153
ZipDirectoryEntry(data, offset) ==
    IF ~InRange(data, offset, 4) THEN [ok |-> FALSE, error |-> RangeError]
    ELSE IF ~DirectorySignatureOk(data, offset)
      THEN [ok |-> FALSE, error |-> DirectorySignatureError]
    ELSE IF ~InRange(data, offset, DirectoryHeaderSize)
      THEN [ok |-> FALSE, error |-> RangeError]
    ELSE LET fileNameLength == getUint16(data, offset + 28)
             extraFieldLength == getUint16(data, offset + 30)
             fileCommentLength == getUint16(data, offset + 32)
             sliceStart == offset + DirectoryHeaderSize
         IN  IF ~InRange(data, sliceStart,
                         fileNameLength + extraFieldLength + fileCommentLength)
             THEN [ok |-> FALSE, error |-> RangeError]
             ELSE [ok |-> TRUE,
                   error |-> "",
                   versionCreated |-> getUint16(data, offset + 4),
                   versionNeeded |-> getUint16(data, offset + 6),
                   flags |-> getUint16(data, offset + 8),
                   compressionMethod |-> getUint16(data, offset + 10),
                   dosTime |-> getUint16(data, offset + 12),
                   dosDate |-> getUint16(data, offset + 14),
                   crc32 |-> getUint32Word(data, offset + 16),
                   compressedSize |-> getUint32(data, offset + 20),
                   uncompressedSize |-> getUint32(data, offset + 24),
                   diskNumberStart |-> getUint16(data, offset + 34),
                   internalFileAttributes |-> getUint16(data, offset + 36),
                   externalFileAttributes |-> getUint32(data, offset + 38),
                   relativeOffset |-> getUint32(data, offset + 42),
                   rawName |-> Slice(data, sliceStart, sliceStart + fileNameLength),
                   rawExtraField |-> Slice(data, sliceStart + fileNameLength,
                                           sliceStart + fileNameLength + extraFieldLength),
                   rawComment |-> Slice(data, sliceStart + fileNameLength + extraFieldLength,
                                        sliceStart + fileNameLength + extraFieldLength
                                          + fileCommentLength)]

\* a variant of directoryEntrySize: the size of the fixed part alone
directoryEntrySizeFixed(entry) == DirectoryHeaderSize

\* ZipDirectoryEntry.directoryEntrySize, lines 167-169
directoryEntrySize(entry) ==
    DirectoryHeaderSize + Len(entry.rawName) + Len(entry.rawExtraField) + Len(entry.rawComment)

LocalSignatureError == "Invalid ZIP local header signature"

\* ZipLocalHeader.fromData(data, offset), lines 177-193
fromData(data, offset) ==
    IF ~InRange(data, offset, 4) THEN [ok |-> FALSE, error |-> RangeError]
    ELSE IF getUint32Word(data, offset)
              # Word(LocalHeaderSignature \div Pow2_16, LocalHeaderSignature % Pow2_16)
      THEN [ok |-> FALSE, error |-> LocalSignatureError]
    ELSE IF ~InRange(data, offset, LocalHeaderSize) THEN [ok |-> FALSE, error |-> RangeError]
    ELSE [ok |-> TRUE,
          error |-> "",
          versionNeeded |-> getUint16(data, offset + 4),
          flags |-> getUint16(data, offset + 6),
          method |-> getUint16(data, offset + 8),
          dosTime |-> getUint16(data, offset + 10),
          dosDate |-> getUint16(data, offset + 12),
          crc32 |-> getUint32Word(data, offset + 14),
          compressedSize |-> getUint32(data, offset + 18),
          uncompressedSize |-> getUint32(data, offset + 22),
          fileNameLength |-> getUint16(data, offset + 26),
          extraFieldLength |-> getUint16(data, offset + 28)]

\* ZipLocalHeader.fromDirectoryEntry, lines 195-208
HeaderFromDirectoryEntry(entry) ==
    [versionNeeded |-> entry.versionNeeded,
     flags |-> entry.flags,
     method |-> entry.compressionMethod,
     dosTime |-> entry.dosTime,
     dosDate |-> entry.dosDate,
     crc32 |-> entry.crc32,
     compressedSize |-> entry.compressedSize,
     uncompressedSize |-> entry.uncompressedSize,
     fileNameLength |-> Len(entry.rawName),
     extraFieldLength |-> Len(entry.rawExtraField)]

\* a variant of EntryFromDirectoryEntry: the data offset leaves out the name
EntryFromDirectoryEntryNoName(data, entry) ==
    LET compressedDataOffset ==
            entry.relativeOffset + LocalHeaderSize + Len(entry.rawExtraField)
    IN  [header |-> HeaderFromDirectoryEntry(entry),
         rawName |-> entry.rawName,
         rawExtraField |-> entry.rawExtraField,
         compressedDataOffset |-> compressedDataOffset,
         compressedData |-> Slice(data, compressedDataOffset,
                                  compressedDataOffset + entry.compressedSize)]

\* a variant of EntryFromDirectoryEntry: the size is taken as the end of the range
EntryFromDirectoryEntryEnd(data, entry) ==
    LET compressedDataOffset ==
            entry.relativeOffset + LocalHeaderSize + Len(entry.rawName)
              + Len(entry.rawExtraField)
    IN  [header |-> HeaderFromDirectoryEntry(entry),
         rawName |-> entry.rawName,
         rawExtraField |-> entry.rawExtraField,
         compressedDataOffset |-> compressedDataOffset,
         compressedData |-> Slice(data, compressedDataOffset, entry.compressedSize)]

\* ZipEntry.fromDirectoryEntry, lines 227-235
EntryFromDirectoryEntry(data, entry) ==
    LET compressedDataOffset ==
            entry.relativeOffset + LocalHeaderSize + Len(entry.rawName)
              + Len(entry.rawExtraField)
    IN  [header |-> HeaderFromDirectoryEntry(entry),
         rawName |-> entry.rawName,
         rawExtraField |-> entry.rawExtraField,
         compressedDataOffset |-> compressedDataOffset,
         compressedData |-> Slice(data, compressedDataOffset,
                                  compressedDataOffset + entry.compressedSize)]

\* ZipLocalHeader.size(), lines 221-223
headerSize(header) == LocalHeaderSize + header.fileNameLength + header.extraFieldLength

\* ZipData.bytes(offset, size), lines 22-25: the bytes of blob.slice(offset, offset + size)
dataBytes(data, offset, length) == Slice(data, offset, offset + length)

\* ZipEntry.fromHeader, lines 237-249
fromHeader(data, relativeOffset, header) ==
    LET compressedDataOffset == relativeOffset + headerSize(header)
        rawPath == dataBytes(data, relativeOffset, header.fileNameLength)
        extraField == dataBytes(data, relativeOffset + header.fileNameLength,
                            header.extraFieldLength)
    IN  [header |-> header,
         rawName |-> rawPath,
         rawExtraField |-> extraField,
         compressedDataOffset |-> compressedDataOffset,
         compressedData |-> Slice(data, compressedDataOffset,
                                  compressedDataOffset + header.compressedSize)]

\* ZipEntry.name and ZipEntry.uncompressedStream (read to its end), lines 268-281
name(entry) == fromUtf8(entry.rawName)
uncompressedStream(entry) ==
    IF entry.header.method = 0 THEN entry.compressedData ELSE Inflate(entry.compressedData)

\* the byte sources given to a reader: the archive as built, or the archive with
\* one signature byte overwritten (the first or last byte of the footer
\* signature, the first byte of a central directory record, or the first byte
\* of the last local header)
ZeroedAt(bytes, pos) == [k \in 1..Len(bytes) |-> IF k = pos + 1 THEN 0 ELSE bytes[k]]

RECURSIVE RecordStarts(_, _)
RecordStarts(es, offset) ==
    IF es = <<>> THEN {}
    ELSE {offset} \cup RecordStarts(Tail(es), offset + directorySize(Head(es)))

\* the position of the last entry's local header
LastHeaderStart ==
    IF entries = <<>> THEN {}
    ELSE {DirectoryLoop(SubSeq(entries, 1, Len(entries) - 1), <<>>, 0, 0).offset}

Intact == -1
CorruptionPoints ==
    {Intact, Len(archive) - FooterSize, Len(archive) - FooterSize + 3}
    \cup RecordStarts(entries, DirectoryLoop(entries, <<>>, 0, 0).offset)
    \cup LastHeaderStart

\* new ZipReader(data)
NewReader(corruptAt) ==
    /\ buildState = "resolved"
    /\ reader.pc = "none"
    /\ corruptAt \in CorruptionPoints
    /\ reader' = [reader EXCEPT
                    !.pc = "footer",
                    !.corruptAt = corruptAt,
                    !.data = IF corruptAt = Intact THEN archive ELSE ZeroedAt(archive, corruptAt)]
    /\ UNCHANGED <<writerVars, unitVars>>

\* ZipFooter.read, lines 54-57, awaited by ZipDirectory.read, line 83
ReadFooter ==
    /\ reader.pc = "footer"
    /\ LET size == Len(reader.data)
           footer == ZipFooter(Slice(reader.data, size - FooterSize, size))
       IN  reader' = IF footer.ok
                     THEN [reader EXCEPT !.pc = "directory", !.footer = footer,
                                         !.footerRead = TRUE]
                     ELSE [reader EXCEPT !.pc = "failed", !.error = footer.error,
                                         !.footerRead = TRUE]
    /\ UNCHANGED <<writerVars, unitVars>>

\* ZipDirectory.read, lines 84-85
ReadDirectory ==
    /\ reader.pc = "directory"
    /\ reader' = [reader EXCEPT
                    !.pc = "entries",
                    !.directoryRead = TRUE,
                    !.dirView = Slice(reader.data, reader.footer.directoryOffset,
                                      reader.footer.directoryOffset
                                        + reader.footer.directorySize),
                    !.dataOffset = 0]
    /\ UNCHANGED <<writerVars, unitVars>>

\* one turn of the loops of ZipDirectory.entries (lines 96-102) and
\* ZipReader.entries (lines 42-44)
NextEntry ==
    /\ reader.pc = "entries"
    /\ IF reader.dataOffset < Len(reader.dirView)
       THEN LET entry == ZipDirectoryEntry(reader.dirView, reader.dataOffset)
            IN  reader' =
                  IF entry.ok
                  THEN [reader EXCEPT
                          !.dataOffset = @ + directoryEntrySize(entry),
                          !.yielded = Append(@, EntryFromDirectoryEntry(reader.data, entry))]
                  ELSE [reader EXCEPT !.pc = "failed", !.error = entry.error]
       ELSE reader' = [reader EXCEPT !.pc = "done"]
    /\ UNCHANGED <<writerVars, unitVars>>

(***************************************************************************)
(* The specification.                                                      *)
(***************************************************************************)
\* a Response: ok is its status being in 200..299, hasBody its body not being null
Responses == [ok : {TRUE}, hasBody : {TRUE}, body : Bodies, contentLength : ContentLengths]
Blobs == {<<7>>}
BlobNames == {<<97>>}
ResponseNames == {<<233, 98>>}
\* strings are added with no options or stored; blobs and responses with an
\* explicit compressed option
StringOptions == {NoEntryOptions, EntryOptions(FALSE)}
BlobOptions == {EntryOptions(TRUE), EntryOptions(FALSE)}

Next ==
    \/ \E n \in Names, d \in Strings, o \in StringOptions : AddString(n, d, o)
    \/ \E n \in BlobNames, b \in Blobs, o \in BlobOptions : AddBlob(n, b, o)
    \/ \E n \in ResponseNames, r \in Responses, o \in BlobOptions : AddResponse(n, r, o)
    \/ \E i \in 1..MaxEntries : Measure(i)
    \/ \E i \in 1..MaxEntries : Flush(i)
    \/ \E i \in 1..MaxEntries : Account(i)
    \/ \E i \in 1..MaxEntries : SourceFail(i)
    \/ \E i \in 1..MaxEntries : CompressFail(i)
    \/ \E o \in BuildOptions : Build(o)
    \/ \E i \in 1..MaxEntries : EntryPartsDone(i)
    \/ \E i \in 1..MaxEntries : EntryPartsReject(i)
    \/ BuildAssemble
    \/ \E c \in CorruptionPoints : NewReader(c)
    \/ ReadFooter
    \/ ReadDirectory
    \/ NextEntry

Spec == Init /\ [][Next]_vars

(***************************************************************************)
(* crc32 over the chunks of a byte sequence, as the measurement transform   *)
(* applies it (write.ts line 54): the accumulator starts at 0 (line 28) and *)
(* each chunk replaces it by crc32(accumulator, chunk).                     *)
(***************************************************************************)
\* the bytes of "Hé" in UTF-8, and the extreme byte values
CrcBytes == {0, 72, 195, 169, 255}
CrcInputs == UNION {[1..n -> CrcBytes] : n \in 0..MaxCrcLen}

\* the ways of cutting a byte sequence into consecutive chunks, empty ones included
RECURSIVE Splits(_, _)
Splits(bytes, n) ==
    IF n = 0 THEN IF bytes = <<>> THEN {<<>>} ELSE {}
    ELSE UNION {{<<Slice(bytes, 0, cut)>> \o rest :
                   rest \in Splits(Slice(bytes, cut, Len(bytes)), n - 1)} :
                cut \in 0..Len(bytes)}

InitCrc ==
    /\ WriterInit
    /\ reader = NoReader
    /\ headerRead = NoHeaderRead
    /\ rebuild = NoRebuild
    /\ \E whole \in CrcInputs, n \in 0..MaxCrcChunks :
         \E split \in Splits(whole, n) :
            crcRun = [whole |-> whole, split |-> split, chunks |-> split, done |-> <<>>,
                      acc |-> WordZero]

\* transform(chunk, controller), line 54: entry.crc32 = crc32(entry.crc32, chunk)
CrcUpdate ==
    /\ crcRun.chunks # <<>>
    /\ crcRun' = [crcRun EXCEPT
                    !.acc = crc32(@, Head(crcRun.chunks)),
                    !.done = @ \o Head(crcRun.chunks),
                    !.chunks = Tail(@)]
    /\ UNCHANGED <<writerVars, reader, headerRead, rebuild>>

NextCrc == CrcUpdate

SpecCrc == InitCrc /\ [][NextCrc]_vars

(***************************************************************************)
(* The add calls alone, on responses of every kind: a success or a failure  *)
(* status, with or without a body, with any of the Content-Length values.   *)
(***************************************************************************)
AnyResponses ==
    [ok : BOOLEAN, hasBody : BOOLEAN, body : Bodies,
     contentLength : ContentLengths \cup OtherContentLengths]

NextAdd ==
    \/ \E n \in Names, d \in Strings, o \in StringOptions : AddString(n, d, o)
    \/ \E n \in ResponseNames, r \in AnyResponses, o \in BlobOptions : AddResponse(n, r, o)

SpecAdd == Init /\ [][NextAdd]_vars

(***************************************************************************)
(* The writer on the entry of write.test.ts, "hello" with content "World",  *)
(* and on entries that differ from it in name, content and options; no      *)
(* stream fails and build() is given no callbacks.                          *)
(***************************************************************************)
Hello == <<104, 101, 108, 108, 111>>
World == <<87, 111, 114, 108, 100>>
LayoutNames == {Hello, <<233, 98>>}
LayoutStrings == {World, <<>>}

NextLayout ==
    \/ \E n \in LayoutNames, d \in LayoutStrings, o \in StringOptions : AddString(n, d, o)
    \/ \E i \in 1..MaxEntries : Measure(i)
    \/ \E i \in 1..MaxEntries : Flush(i)
    \/ \E i \in 1..MaxEntries : Account(i)
    \/ Build(NoOptions)
    \/ \E i \in 1..MaxEntries : EntryPartsDone(i)
    \/ BuildAssemble

SpecLayout == Init /\ [][NextLayout]_vars

(***************************************************************************)
(* A further build() on a writer whose first build() has resolved.          *)
(***************************************************************************)
LockedError == "TypeError: ReadableStream is locked or disturbed"

\* a variant of ResponseThrows: the constructor accepts a stream that was read
ResponseAcceptsAny(s) == FALSE

\* new Response(stream), line 80, throws a TypeError when the stream is locked or
\* has been read from
ResponseThrows(s) == s.locked

\* build(options), lines 184-210, called again: the callbacks are installed
\* again and every entryParts() is called again
BuildAgain(opts) ==
    /\ buildState = "resolved"
    /\ rebuild.state = "none"
    /\ entries' = [k \in Indices |->
                     [entries[k] EXCEPT
                        !.progressCallback = @ \/ opts.progress \/ opts.entryProgress]]
    /\ rebuild' = [rebuild EXCEPT !.state = "running"]
    /\ UNCHANGED <<streams, addError, options, entryProgress, buildState, buildError,
                   partsState, parts, archive, added, calls, doneOrder, reader, crcRun,
                   headerRead>>

\* the second build() settles: an entryParts() whose Response constructor threw
\* has rejected, and with it Promise.all and build(); otherwise every stream is
\* read to its end, which gives no chunk, and the output is assembled
BuildAgainSettle ==
    /\ rebuild.state = "running"
    /\ rebuild' =
         IF \E k \in Indices : ResponseThrows(streams[k])
         THEN [rebuild EXCEPT !.state = "rejected", !.error = LockedError]
         ELSE [rebuild EXCEPT
                 !.state = "resolved",
                 !.archive = BuildBlob(entries,
                                       [k \in Indices |->
                                          <<LocalHeader(entries[k]), entries[k].rawName, <<>>>>])]
    /\ UNCHANGED <<writerVars, reader, crcRun, headerRead>>

NextRebuild ==
    \/ \E d \in LayoutStrings, o \in StringOptions : AddString(Hello, d, o)
    \/ \E i \in 1..MaxEntries : Measure(i)
    \/ \E i \in 1..MaxEntries : Flush(i)
    \/ \E i \in 1..MaxEntries : Account(i)
    \/ \E o \in BuildOptions : Build(o)
    \/ \E i \in 1..MaxEntries : EntryPartsDone(i)
    \/ \E i \in 1..MaxEntries : EntryPartsReject(i)
    \/ BuildAssemble
    \/ \E o \in BuildOptions : BuildAgain(o)
    \/ BuildAgainSettle

SpecRebuild == Init /\ [][NextRebuild]_vars

(***************************************************************************)
(* ZipLocalHeader.fromData on the bytes of read.test.ts and on local headers *)
(* the writer emits, at every offset up to MaxHeaderOffset.                  *)
(***************************************************************************)
\* read.test.ts, lines 26-44: localEntryBytes
localEntryBytes ==
    <<80, 75, 3, 4, 20, 0, 0, 0, 8, 0, 28, 125, 75, 53, 166, 225, 144, 125, 69, 0, 0, 0,
      74, 0, 0, 0, 5, 0, 21, 0>>
    \o <<102, 105, 108, 101, 49>>
    \o <<85, 84, 9, 0, 3, 199, 72, 45, 69, 199, 72, 45, 69>>
    \o <<85, 120, 4, 0, 245, 1, 245, 1>>

\* the local header and name entryParts() returns for an entry of this name and
\* content once its pipeline has drained
WrittenHeader(entryName, content, compressed) ==
    LET e == [ZipEntry(entryName, 0, compressed) EXCEPT
                !.crc32 = crc32(WordZero, content),
                !.uncompressedSize = Len(content),
                !.compressedSize = Len(IF compressed THEN Deflate(content) ELSE content)]
    IN  LocalHeader(e) \o e.rawName

HeaderRecords ==
    {localEntryBytes}
    \cup {WrittenHeader(n, d, c) : n \in LayoutNames, d \in LayoutStrings, c \in BOOLEAN}

\* the views: a record at byte 0, or after four other bytes
HeaderViews == HeaderRecords \cup {<<0, 0, 0, 0>> \o record : record \in HeaderRecords}

InitLocalHeader ==
    /\ WriterInit
    /\ reader = NoReader
    /\ crcRun = NoCrcRun
    /\ rebuild = NoRebuild
    /\ \E view \in HeaderViews, offset \in 0..MaxHeaderOffset :
         headerRead = [pc |-> "call", view |-> view, offset |-> offset, result |-> <<>>]

FromData ==
    /\ headerRead.pc = "call"
    /\ headerRead' = [headerRead EXCEPT
                        !.pc = "returned",
                        !.result = fromData(headerRead.view, headerRead.offset)]
    /\ UNCHANGED <<writerVars, reader, crcRun, rebuild>>

NextLocalHeader == FromData

SpecLocalHeader == InitLocalHeader /\ [][NextLocalHeader]_vars

(***************************************************************************)
(* Properties.                                                             *)
(***************************************************************************)
\* what the data part of entry k has to be, from the content that was added
ExpectedData(k) ==
    IF entries[k].method = MethodDeflate THEN Deflate(added[k].content) ELSE added[k].content

\* the sum of entrySize() over the entries before entry k
SizesBefore(k) == SumSeq([j \in 1..(k - 1) |-> entrySize(entries[j])])

\* the byte position at which the parts of entry k start in the output
PositionOfParts(k) ==
    SumSeq([j \in 1..(k - 1) |-> Len(parts[j][1]) + Len(parts[j][2]) + Len(parts[j][3])])

\* the central directory records found in a view, read one after the other
RECURSIVE RecordsFrom(_, _)
RecordsFrom(view, offset) ==
    IF offset >= Len(view) THEN <<>>
    ELSE LET entry == ZipDirectoryEntry(view, offset)
         IN  IF entry.ok
             THEN <<entry>> \o RecordsFrom(view, offset + directoryEntrySize(entry))
             ELSE <<>>

ArchiveFooter == ZipFooter(Slice(archive, Len(archive) - FooterSize, Len(archive)))
\* the records that follow the last entry's data in the output
ArchiveRecords ==
    RecordsFrom(Slice(archive, PositionOfParts(Len(entries) + 1), Len(archive) - FooterSize), 0)

ReadIntact == reader.pc = "done" /\ reader.corruptAt = Intact

\* C1: reading an archive that build() produced yields as many entries as were
\* added, in insertion order, each with the added name and the added content.
C1_RoundTrip ==
    ReadIntact =>
        /\ Len(reader.yielded) = Len(added)
        /\ \A k \in 1..Len(added) :
             /\ name(reader.yielded[k]) = added[k].name
             /\ uncompressedStream(reader.yielded[k]) = added[k].content

\* two entries of different names, an empty one and a compressed one, read back
C1_Witness ==
    /\ ReadIntact
    /\ Len(added) = 2
    /\ added[1].name # added[2].name
    /\ added[1].content = <<>>
    /\ Len(added[2].content) = 3
    /\ entries[2].method = MethodDeflate
    /\ Len(reader.yielded) = 2

\* C2: in the output of build(), the relative offset of entry k's central
\* directory record is the sum of entrySize() of the entries before it, which is
\* where entry k's local header signature sits, and the footer's directory offset
\* is the sum of entrySize() of all entries, which is where the first record sits.
C2_OffsetInvariant ==
    buildState = "resolved" =>
        LET n == Len(entries)
            footer == ArchiveFooter
            records == ArchiveRecords
        IN  /\ footer.ok
            /\ footer.directoryOffset = SizesBefore(n + 1)
            /\ footer.directoryOffset = PositionOfParts(n + 1)
            /\ Len(records) = n
            /\ \A k \in 1..n :
                 /\ records[k].relativeOffset = SizesBefore(k)
                 /\ records[k].relativeOffset = PositionOfParts(k)
                 /\ getUint32(archive, PositionOfParts(k)) = LocalHeaderSignature

\* an archive of two entries, the first with data
C2_Witness ==
    /\ buildState = "resolved"
    /\ Len(entries) = 2
    /\ entries[1].compressedSize > 0
    /\ Len(entries[1].rawName) # Len(entries[2].rawName)
    /\ ArchiveRecords[2].relativeOffset > LocalHeaderSize

\* the crc32, compressedSize and uncompressedSize fields of a local header
HeaderCounters(header) ==
    <<getUint32Word(header, 14), getUint32(header, 18), getUint32(header, 22)>>
\* the same fields of a central directory record
RecordCounters(record) == <<record.crc32, record.compressedSize, record.uncompressedSize>>
\* the final values, from the content that was added
FinalCounters(k) ==
    <<crc32(WordZero, added[k].content), Len(ExpectedData(k)), Len(added[k].content)>>

\* every chunk of entry k has left its source and has been read out of the chain
PipelineDrained(k) ==
    /\ streams[k].source = <<>>
    /\ streams[k].aq = <<>>
    /\ streams[k].zbuf = (IF streams[k].compressed THEN added[k].content ELSE <<>>)
    /\ streams[k].compressed => streams[k].flushed

\* C3: an entry's local header is encoded only once its pipeline has drained, the
\* directory records and the footer only once all pipelines have drained; the
\* crc32 and the sizes written in both are the final values, equal to each other.
C3_DeferredHeaders ==
    /\ \A k \in DOMAIN partsState :
         partsState[k] = "fulfilled" =>
            /\ PipelineDrained(k)
            /\ streams[k].data = ExpectedData(k)
            /\ HeaderCounters(parts[k][1]) = FinalCounters(k)
    /\ buildState = "resolved" =>
         LET records == ArchiveRecords
         IN  /\ \A k \in Indices : PipelineDrained(k)
             /\ Len(records) = Len(entries)
             /\ \A k \in Indices :
                  /\ RecordCounters(records[k]) = FinalCounters(k)
                  /\ RecordCounters(records[k]) = HeaderCounters(parts[k][1])

\* an archive with a compressed entry whose source came in two chunks and whose
\* compressed data came out in two chunks
C3_Witness ==
    /\ buildState = "resolved"
    /\ \E k \in Indices :
         /\ entries[k].method = MethodDeflate
         /\ entries[k].uncompressedSize = 3
         /\ entries[k].compressedSize > MaxOutChunk
         /\ entries[k].streamSizeGuess # 3

\* C4: build() reads every entry's stream from the start, and whatever the order
\* in which the entries finish, the output is the entries' [header, name, data]
\* in insertion order, then their directory records in insertion order.
C4_LayoutInInsertionOrder ==
    /\ buildState # "idle" => \A k \in Indices : streams[k].locked
    /\ buildState = "resolved" =>
         LET records == ArchiveRecords
         IN  /\ Slice(archive, 0, PositionOfParts(Len(entries) + 1)) =
                   Flatten([k \in Indices |->
                              LocalHeader(entries[k]) \o toUtf8(added[k].name)
                                \o ExpectedData(k)])
             /\ Len(records) = Len(entries)
             /\ \A k \in Indices :
                  /\ records[k].rawName = toUtf8(added[k].name)
                  /\ RecordCounters(records[k]) = FinalCounters(k)

\* the second entry finished before the first, and the two differ
C4_Witness ==
    /\ buildState = "resolved"
    /\ doneOrder = <<2, 1>>
    /\ added[1].name # added[2].name
    /\ added[1].content # added[2].content

\* C5: once the source or the compression transform of an entry has failed, the
\* build never resolves and returns no bytes; when that entry's entryParts()
\* rejects, build() is rejected, with the error of a rejected entry.
C5_FailureFailsBuild ==
    /\ \A k \in Indices :
         Failed(streams[k]) =>
            /\ buildState # "resolved"
            /\ archive = <<>>
            /\ k \in DOMAIN partsState =>
                 /\ partsState[k] # "fulfilled"
                 /\ partsState[k] = "rejected" => buildState = "rejected"
    /\ buildState = "rejected" =>
         /\ archive = <<>>
         /\ \E k \in Indices : partsState[k] = "rejected" /\ streams[k].error = buildError

\* the build was rejected by a source failure after the other entry had finished
C5_Witness ==
    /\ buildState = "rejected"
    /\ buildError = SourceError
    /\ \E k \in Indices : partsState[k] = "fulfilled"

\* C6, the part that holds: the successive entryProgress calls of an entry
\* report non-decreasing bytesWritten.
C6_Monotone ==
    [][\A k \in DOMAIN calls.entry :
         calls.entry[k] # <<>> =>
            /\ calls.entry'[k] # <<>>
            /\ calls.entry'[k][1] >= calls.entry[k][1]]_vars

\* C6: when a build() called with entryProgress has resolved, every entry with
\* non-empty content has had an entryProgress call, and the last one reported the
\* entry's final uncompressedSize as bytesWritten.
C6_ProgressComplete ==
    (buildState = "resolved" /\ options.entryProgress) =>
        \A k \in Indices :
            added[k].content # <<>> =>
                /\ calls.entry[k] # <<>>
                /\ calls.entry[k][1] = entries[k].uncompressedSize

\* C7: every call of an entry's progressCallback calls each callback that was
\* given, and a build() is rejected only when a source or a compression
\* transform has failed, whichever of the two callbacks it was given.
C7_ProgressWiring ==
    /\ options.entryProgress => calls.nEntry = calls.nCallback
    /\ options.progress => calls.nProgress = calls.nCallback
    /\ buildState = "rejected" => \E k \in Indices : Failed(streams[k])

\* the bytesWritten and totalBytes entry k reported last: 0 and its size hint
\* when it has not reported
LatestWritten(k) == IF calls.callback[k] = <<>> THEN 0 ELSE calls.callback[k][1]
LatestTotal(k) ==
    IF calls.callback[k] = <<>> THEN entries[k].streamSizeGuess ELSE calls.callback[k][2]

\* C8: the arguments of every progress call are the sum over all entries of the
\* bytesWritten each reported last (0 when it has not reported) and the sum of the
\* totalBytes each reported last (its size hint when it has not reported).
C8_AggregateIsLiveSum ==
    calls.progress # <<>> =>
        calls.progress = <<SumSeq([k \in Indices |-> LatestWritten(k)]),
                           SumSeq([k \in Indices |-> LatestTotal(k)])>>

\* a progress call while one entry with a size hint has not reported and the
\* other has outgrown its hint
C8_Witness ==
    /\ calls.progress # <<>>
    /\ \E j, k \in Indices :
         /\ calls.callback[j] = <<>>
         /\ entries[j].streamSizeGuess > 0
         /\ calls.callback[k] # <<>>
         /\ calls.callback[k][2] > entries[k].streamSizeGuess
         /\ entries[k].streamSizeGuess > 0

\* the last 22 bytes of the reader's source do not begin with the signature
BadFooter ==
    /\ Len(reader.data) >= FooterSize
    /\ Slice(reader.data, Len(reader.data) - FooterSize, Len(reader.data) - FooterSize + 4)
         # setUint32(FooterSignature)

\* C9: on a source of at least 22 bytes whose last 22 bytes do not begin with the
\* footer signature, entries() fails with the footer's bad-signature error, with
\* no entry yielded and the central directory not read.
C9_BadFooterRejects ==
    (reader.pc # "none" /\ BadFooter) =>
        /\ reader.yielded = <<>>
        /\ ~reader.directoryRead
        /\ reader.dirView = <<>>
        /\ reader.footer = <<>>
        /\ reader.pc \in {"footer", "failed"}
        /\ reader.footerRead => (reader.pc = "failed" /\ reader.error = FooterSignatureError)

\* the read of a two-entry archive whose footer signature has a wrong last byte
\* has failed
C9_Witness ==
    /\ reader.pc = "failed"
    /\ BadFooter
    /\ reader.corruptAt = Len(archive) - FooterSize + 3
    /\ Len(entries) = 2

\* the position (from 1) of the central directory record that was overwritten,
\* 0 when none was
CorruptRecord ==
    LET starts == RecordStarts(entries, DirectoryLoop(entries, <<>>, 0, 0).offset)
    IN  IF reader.corruptAt \in starts
        THEN Cardinality({p \in starts : p <= reader.corruptAt})
        ELSE 0

\* C10 as stated: when a central directory record lacks its signature, the caller
\* receives no entry at all, not even those before it.
C10_NoPartialResult ==
    (reader.pc = "failed" /\ reader.error = DirectorySignatureError) => reader.yielded = <<>>

\* C10, amended: when the record at position k lacks its signature, entries()
\* fails with the directory's bad-signature error once it reaches k; no entry at
\* position k or later is yielded, and the entries before k have been yielded.
C10_MalformedEntryFails ==
    CorruptRecord > 0 =>
        /\ Len(reader.yielded) < CorruptRecord
        /\ reader.pc # "done"
        /\ \A k \in 1..Len(reader.yielded) : name(reader.yielded[k]) = added[k].name
        /\ reader.pc = "failed" =>
             /\ reader.error = DirectorySignatureError
             /\ Len(reader.yielded) = CorruptRecord - 1

\* the read failed at the second record, after the first entry was yielded
C10_Witness ==
    /\ CorruptRecord = 2
    /\ reader.pc = "failed"
    /\ reader.error = DirectorySignatureError
    /\ Len(reader.yielded) = 1

\* C11: folding crc32 over the chunks of a byte sequence, from accumulator 0,
\* gives at every step the checksum of the bytes gone through, and at the end the
\* checksum of the whole sequence, however it was split; the checksum of the
\* empty sequence is 0, and that of 48 C3 A9 is 0xCE159AAB.
C11_ChunkingIndependence ==
    /\ crc32(WordZero, <<>>) = WordZero
    /\ crcRun.acc = crc32(WordZero, crcRun.done)
    /\ crcRun.done = <<72, 195, 169>> => crcRun.acc = Word(52757, 39595)
    /\ crcRun.chunks = <<>> =>
         /\ crcRun.done = crcRun.whole
         /\ crcRun.acc = crc32(WordZero, crcRun.whole)

\* three bytes given as an empty chunk, a chunk of two bytes and a chunk of one
C11_Witness ==
    /\ crcRun.chunks = <<>>
    /\ Len(crcRun.split) = 3
    /\ crcRun.split[1] = <<>>
    /\ Len(crcRun.split[2]) = 2
    /\ Len(crcRun.split[3]) = 1
    /\ crcRun.acc # WordZero

\* the offset in the output at which the data part of entry k starts
DataPosition(k) == PositionOfParts(k) + LocalHeaderSize + Len(toUtf8(added[k].name))

\* C12: in the output of build(), an entry added with compressed:false has method
\* 0 in its local header and in its directory record, equal compressed and
\* uncompressed sizes in both, and the added content as its data part; an entry
\* added with compressed:true or with no options has method 8 in both.
C12_StoredEntries ==
    buildState = "resolved" =>
        LET records == ArchiveRecords
        IN  /\ Len(records) = Len(entries)
            /\ \A k \in Indices :
                 LET at == PositionOfParts(k)
                 IN  IF added[k].options = EntryOptions(FALSE)
                     THEN /\ getUint16(archive, at + 8) = 0
                          /\ records[k].compressionMethod = 0
                          /\ getUint32(archive, at + 18) = getUint32(archive, at + 22)
                          /\ records[k].compressedSize = records[k].uncompressedSize
                          /\ records[k].compressedSize = Len(added[k].content)
                          /\ Slice(archive, DataPosition(k),
                                   DataPosition(k) + Len(added[k].content)) = added[k].content
                          /\ DataPosition(k) + Len(added[k].content) = PositionOfParts(k + 1)
                     ELSE /\ getUint16(archive, at + 8) = 8
                          /\ records[k].compressionMethod = 8

\* an archive of a stored entry whose content came in two chunks and an entry
\* added with no options
C12_Witness ==
    /\ buildState = "resolved"
    /\ \E j, k \in Indices :
         /\ added[j].options = EntryOptions(FALSE)
         /\ Len(added[j].content) = 3
         /\ added[k].options = NoEntryOptions
         /\ added[k].content # <<>>

\* the offset in the directory view of the record after the first k records
OffsetAfter(records, k) == SumSeq([j \in 1..k |-> directoryEntrySize(records[j])])

\* the length fields of the record at an offset of a view: name, extra, comment
LengthFields(view, offset) ==
    getUint16(view, offset + 28) + getUint16(view, offset + 30) + getUint16(view, offset + 32)

\* C13: directoryEntrySize() of every record parsed from the directory is 46 plus
\* its three length fields; on an archive build() produced the reader's cursor is
\* the sum of these sizes over the entries yielded so far, never passes the
\* footer's directorySize, and when the iteration ends it equals directorySize,
\* with as many entries yielded as the writer held.
C13_DirectoryIterationExact ==
    (reader.pc \in {"entries", "done"} /\ reader.corruptAt = Intact) =>
        LET records == RecordsFrom(reader.dirView, 0)
            n == Len(reader.yielded)
        IN  /\ Len(reader.dirView) = reader.footer.directorySize
            /\ \A k \in 1..Len(records) :
                 directoryEntrySize(records[k]) =
                     DirectoryHeaderSize
                       + LengthFields(reader.dirView, OffsetAfter(records, k - 1))
            /\ n <= Len(records)
            /\ reader.dataOffset = OffsetAfter(records, n)
            /\ reader.dataOffset <= reader.footer.directorySize
            /\ reader.pc = "done" =>
                 /\ reader.dataOffset = reader.footer.directorySize
                 /\ n = Len(entries)
                 /\ n = reader.footer.totalEntries

\* the iteration over the directory of two entries of different name lengths
\* has ended
C13_Witness ==
    /\ reader.pc = "done"
    /\ reader.corruptAt = Intact
    /\ Len(reader.yielded) = 2
    /\ Len(reader.yielded[1].rawName) # Len(reader.yielded[2].rawName)
    /\ reader.dataOffset = 2 * DirectoryHeaderSize + 4

\* the reader's source is the archive as built, or the archive with the
\* signature of the last local header damaged
LocalHeadersOnly == reader.corruptAt \in {Intact} \cup LastHeaderStart

\* C14: each entry the reader yields has the header fields of its directory
\* record and, as compressed data, the range of the source that starts at
\* relativeOffset + 30 + name length + extra length and is compressedSize long;
\* on an archive build() produced that range is the entry's data part as written,
\* and the entry is the same whether or not the local header bytes are intact.
C14_DataRange ==
    (reader.pc \in {"entries", "done"} /\ LocalHeadersOnly) =>
        LET records == ArchiveRecords
        IN  \A k \in 1..Len(reader.yielded) :
               LET entry == reader.yielded[k]
                   from == records[k].relativeOffset + LocalHeaderSize
                             + getUint16(archive, PositionOfParts(Len(entries) + 1)
                                                    + OffsetAfter(records, k - 1) + 28)
                             + getUint16(archive, PositionOfParts(Len(entries) + 1)
                                                    + OffsetAfter(records, k - 1) + 30)
               IN  /\ entry.header = HeaderFromDirectoryEntry(records[k])
                   /\ entry.compressedDataOffset = from
                   /\ from = DataPosition(k)
                   /\ entry.compressedData =
                        Slice(reader.data, from, from + records[k].compressedSize)
                   /\ entry.compressedData = parts[k][3]
                   /\ entry.compressedData = ExpectedData(k)

\* both entries of an archive were read although the second local header's
\* signature is damaged, and the second has data
C14_Witness ==
    /\ reader.pc = "done"
    /\ reader.corruptAt > 0
    /\ reader.corruptAt \in LastHeaderStart
    /\ Len(reader.yielded) = 2
    /\ Len(reader.yielded[1].compressedData) > 0
    /\ Len(reader.yielded[2].compressedData) > 0

\* the Content-Length header is present and parseInt gives NaN or a negative number
BadContentLength(response) ==
    /\ response.contentLength # NoHeader
    /\ \/ parseInt(response.contentLength) = <<>>
       \/ parseInt(response.contentLength)[1] < 0

\* C15, the part that holds: an addResponse call whose response has no body or a
\* Content-Length that is unparsable or negative throws, and leaves the writer's
\* entries as they were.
C15_SourceErrorsAbort ==
    [][\A n \in ResponseNames, r \in AnyResponses, o \in BlobOptions :
         ((~r.hasBody \/ BadContentLength(r)) /\ AddResponse(n, r, o)) =>
            /\ addError' # ""
            /\ entries' = entries
            /\ streams' = streams]_vars

\* C15: an addResponse call whose response has no body, an unparsable or negative
\* Content-Length, or a failure status throws, and leaves the writer's entries
\* as they were.
C15_BadResponsesRejected ==
    [][\A n \in ResponseNames, r \in AnyResponses, o \in BlobOptions :
         ((~r.hasBody \/ BadContentLength(r) \/ ~r.ok) /\ AddResponse(n, r, o)) =>
            /\ addError' # ""
            /\ entries' = entries
            /\ streams' = streams]_vars

\* the size hint of entry k, from what it was added from: the byte size of a
\* string's or a blob's content, the number a response's Content-Length header
\* states, 0 for a response without the header
SizeHint(k) ==
    IF added[k].origin.kind \in {"string", "blob"} THEN Len(added[k].content)
    ELSE IF added[k].origin.contentLength = NoHeader THEN 0
    ELSE ParseDigits(added[k].origin.contentLength, 0)

\* C16: every call of an entry's progress callback has the arguments
\* (uncompressedSize so far, max(size hint, uncompressedSize so far)); whatever
\* the hint, the counters and the data written to the output are those of the
\* added content.
C16_ProgressArguments ==
    /\ \A k \in Indices :
         /\ entries[k].streamSizeGuess = SizeHint(k)
         /\ calls.callback[k] # <<>> =>
              /\ calls.callback[k][1] = entries[k].uncompressedSize
              /\ calls.callback[k][2] = Max(SizeHint(k), calls.callback[k][1])
    /\ buildState = "resolved" =>
         \A k \in Indices :
            /\ <<entries[k].crc32, entries[k].compressedSize, entries[k].uncompressedSize>>
                 = FinalCounters(k)
            /\ HeaderCounters(parts[k][1]) = FinalCounters(k)
            /\ parts[k][3] = ExpectedData(k)

\* a response of three bytes that declared five reported (1, 5) on its first
\* chunk, and a response of three bytes that declared one reported (3, 3)
C16_Witness ==
    \E j, k \in Indices :
       /\ added[j].origin = Origin("response", <<53>>)
       /\ calls.callback[j] = <<1, 5>>
       /\ added[k].origin = Origin("response", <<49>>)
       /\ calls.callback[k] = <<3, 3>>

\* the lengths of the group and of the directory record of entry k, from what
\* was added
GroupLength(k) == LocalHeaderSize + Len(toUtf8(added[k].name)) + Len(ExpectedData(k))
RecordLength(k) == DirectoryHeaderSize + Len(toUtf8(added[k].name))
GroupStart(k) == SumSeq([j \in 1..(k - 1) |-> GroupLength(j)])
RecordStart(k) == GroupStart(Len(added) + 1) + SumSeq([j \in 1..(k - 1) |-> RecordLength(j)])

\* the reference archive of write.test.ts, lines 7-10: its local header, its
\* directory record without the name, and its footer
SnapshotHeader ==
    <<80, 75, 3, 4, 20, 0, 0, 8, 8, 0, 0, 0, 0, 0, 71, 62, 182, 251, 7, 0, 0, 0, 5, 0, 0, 0,
      5, 0, 0, 0>>
SnapshotRecord ==
    <<80, 75, 1, 2, 20, 0, 20, 0, 0, 8, 8, 0, 0, 0, 0, 0, 71, 62, 182, 251, 7, 0, 0, 0,
      5, 0, 0, 0, 5, 0, 0, 0, 0, 0, 0, 0, 0, 0, 0, 0, 0, 0, 0, 0, 0, 0>>
SnapshotFooter == <<80, 75, 5, 6, 0, 0, 0, 0, 1, 0, 1, 0, 51, 0, 0, 0, 42, 0, 0, 0, 0, 0>>

\* the writer holds the one entry of write.test.ts
OnlyHelloWorld ==
    /\ Len(added) = 1
    /\ added[1].name = Hello
    /\ added[1].content = World
    /\ added[1].options = NoEntryOptions

\* C17: the output of build() for n entries is n groups of a 30-byte header, the
\* name and the data, then n records of 46 bytes and the name, then a 22-byte
\* footer with both counts n, the directory size the sum of 46 + name length, the
\* directory offset the end of the groups and comment length 0; for "hello" with
\* content "World" and a compressed payload of 7 bytes the header, the record and
\* the footer are those of the reference archive: sizes 7 and 5, offset 0, count
\* 1, directory size 51, directory offset 42.
C17_ArchiveLayout ==
    buildState = "resolved" =>
        LET n == Len(added)
            footerStart == RecordStart(n + 1)
        IN  /\ Len(archive) = footerStart + FooterSize
            /\ \A k \in 1..n :
                 /\ getUint32(archive, GroupStart(k)) = LocalHeaderSignature
                 /\ Slice(archive, GroupStart(k) + LocalHeaderSize,
                          GroupStart(k) + GroupLength(k))
                      = toUtf8(added[k].name) \o ExpectedData(k)
                 /\ getUint32(archive, RecordStart(k)) = DirectorySignature
                 /\ Slice(archive, RecordStart(k) + DirectoryHeaderSize,
                          RecordStart(k) + RecordLength(k)) = toUtf8(added[k].name)
            /\ getUint32(archive, footerStart) = FooterSignature
            /\ getUint16(archive, footerStart + 8) = n
            /\ getUint16(archive, footerStart + 10) = n
            /\ getUint32(archive, footerStart + 12) = SumSeq([k \in 1..n |-> RecordLength(k)])
            /\ getUint32(archive, footerStart + 16) = GroupStart(n + 1)
            /\ getUint16(archive, footerStart + 20) = 0
            /\ OnlyHelloWorld =>
                 /\ Len(ExpectedData(1)) = 7
                 /\ archive = SnapshotHeader \o Hello \o ExpectedData(1)
                                \o SnapshotRecord \o Hello \o SnapshotFooter
                 /\ getUint32(archive, 18) = 7
                 /\ getUint32(archive, 22) = 5
                 /\ getUint32(archive, 42 + 42) = 0
                 /\ getUint16(archive, footerStart + 8) = 1
                 /\ getUint32(archive, footerStart + 12) = 51
                 /\ getUint32(archive, footerStart + 16) = 42

\* the archive of the one entry "hello" with content "World" has been built
C17_Witness ==
    /\ buildState = "resolved"
    /\ OnlyHelloWorld
    /\ Len(archive) = 115

\* the archive of two entries with different names, one of them stored, has
\* been built
C17_WitnessTwo ==
    /\ buildState = "resolved"
    /\ Len(added) = 2
    /\ added[1].name # added[2].name
    /\ added[1].options # added[2].options
    /\ added[1].content = World
    /\ added[2].content = World

\* the number of bytes of a string in UTF-8
Utf8Length(str) ==
    SumSeq([i \in 1..Len(str) |-> IF str[i] < 128 THEN 1 ELSE IF str[i] < 2048 THEN 2 ELSE 3])

\* bit 11 of a flags field
Bit11(flags) == (flags \div 2048) % 2 = 1

\* C18: in the output of build(), every local header has its signature, version
\* needed 20, flag bit 11, time and date 0, extra length 0 and the UTF-8 length of
\* the name as name length; every directory record has its signature, both
\* versions 20, extra and comment lengths 0, disk number start 0 and attributes 0;
\* the flags, method and name of a record are those of the entry's local header.
C18_FixedFields ==
    buildState = "resolved" =>
        \A k \in 1..Len(added) :
            LET h == GroupStart(k)
                r == RecordStart(k)
                nameLength == Utf8Length(added[k].name)
            IN  /\ getUint32(archive, h) = 67324752
                /\ getUint16(archive, h + 4) = 20
                /\ Bit11(getUint16(archive, h + 6))
                /\ getUint16(archive, h + 10) = 0
                /\ getUint16(archive, h + 12) = 0
                /\ getUint16(archive, h + 26) = nameLength
                /\ getUint16(archive, h + 28) = 0
                /\ getUint32(archive, r) = 33639248
                /\ getUint16(archive, r + 4) = 20
                /\ getUint16(archive, r + 6) = 20
                /\ getUint16(archive, r + 28) = nameLength
                /\ getUint16(archive, r + 30) = 0
                /\ getUint16(archive, r + 32) = 0
                /\ getUint16(archive, r + 34) = 0
                /\ getUint16(archive, r + 36) = 0
                /\ getUint32(archive, r + 38) = 0
                /\ getUint16(archive, r + 8) = getUint16(archive, h + 6)
                /\ getUint16(archive, r + 10) = getUint16(archive, h + 8)
                /\ Slice(archive, r + DirectoryHeaderSize, r + DirectoryHeaderSize + nameLength)
                     = Slice(archive, h + LocalHeaderSize, h + LocalHeaderSize + nameLength)

\* an archive of a stored and a deflated entry, one of them with a name whose
\* UTF-8 form is longer than its number of characters
C18_Witness ==
    /\ buildState = "resolved"
    /\ \E j, k \in 1..Len(added) :
         /\ Utf8Length(added[j].name) > Len(added[j].name)
         /\ entries[j].method # entries[k].method
         /\ added[j].content # <<>>

\* the crc32, compressedSize and uncompressedSize of write entry k
EntryCounters(k) ==
    <<entries[k].crc32, entries[k].compressedSize, entries[k].uncompressedSize>>

\* C19: a further build() on a writer that holds an entry and whose build() has
\* resolved never resolves and returns no bytes: it is rejected with the error of
\* the Response constructor; no chunk goes through a transform again, so the
\* entries' counters stay those of the added content, as they were when the
\* pipelines finished.
C19_DrainOnce ==
    (rebuild.state # "none" /\ entries # <<>>) =>
        /\ rebuild.state # "resolved"
        /\ rebuild.archive = <<>>
        /\ rebuild.state = "rejected" => rebuild.error = LockedError
        /\ \A k \in Indices :
             /\ EntryCounters(k) = FinalCounters(k)
             /\ HeaderCounters(parts[k][1]) = EntryCounters(k)
             /\ streams[k].data = ExpectedData(k)
             /\ PipelineDrained(k)

\* the second build() of a writer of two entries with content was rejected
C19_Witness ==
    /\ rebuild.state = "rejected"
    /\ Len(entries) = 2
    /\ \A k \in Indices : entries[k].uncompressedSize > 0
    /\ archive # <<>>

\* the values the test of read.test.ts expects, lines 51-59
TestExpectsHeader(header) ==
    /\ header.ok
    /\ header.versionNeeded = 20
    /\ header.method = 8
    /\ header.dosTime = 32028
    /\ header.dosDate = 13643
    /\ header.crc32 = Word(32144, 57766)
    /\ header.compressedSize = 69
    /\ header.uncompressedSize = 74
    /\ header.fileNameLength = 5
    /\ header.extraFieldLength = 21

\* C20, the part that holds: called with the offset at which a record begins,
\* fromData returns the ten fields of the 30-byte layout, each read little-endian;
\* for the bytes of the test and offset 0 these are the values the test expects.
C20_WellFormedDecodes ==
    LET view == headerRead.view
        at == headerRead.offset
        header == headerRead.result
    IN  (/\ headerRead.pc = "returned"
         /\ at + LocalHeaderSize <= Len(view)
         /\ SubSeq(view, at + 1, at + 4) = <<80, 75, 3, 4>>) =>
            /\ header.ok
            /\ header.versionNeeded = view[at + 5] + 256 * view[at + 6]
            /\ header.flags = view[at + 7] + 256 * view[at + 8]
            /\ header.method = view[at + 9] + 256 * view[at + 10]
            /\ header.dosTime = view[at + 11] + 256 * view[at + 12]
            /\ header.dosDate = view[at + 13] + 256 * view[at + 14]
            /\ header.crc32 = <<view[at + 17] + 256 * view[at + 18],
                                view[at + 15] + 256 * view[at + 16]>>
            /\ header.compressedSize =
                 view[at + 19] + 256 * (view[at + 20] + 256 * (view[at + 21] + 256 * view[at + 22]))
            /\ header.uncompressedSize =
                 view[at + 23] + 256 * (view[at + 24] + 256 * (view[at + 25] + 256 * view[at + 26]))
            /\ header.fileNameLength = view[at + 27] + 256 * view[at + 28]
            /\ header.extraFieldLength = view[at + 29] + 256 * view[at + 30]
            /\ (view = localEntryBytes /\ at = 0) => TestExpectsHeader(header)

\* C20: called with offset 4 on the bytes of the test, whose record begins with
\* the signature at byte 0, fromData returns the values the test expects.
C20_FromDataTest ==
    (/\ headerRead.pc = "returned"
     /\ headerRead.view = localEntryBytes
     /\ headerRead.offset = 4) => TestExpectsHeader(headerRead.result)

\* the counters of an entry record
CountersOf(e) == <<e.crc32, e.compressedSize, e.uncompressedSize>>
\* its name, method and flags
IdentityOf(e) == <<e.rawName, e.method, e.flags>>

\* C21: a step that changes a counter of an entry is a step of that entry's own
\* pipeline: its measurement stage takes the next chunk of its source (or its
\* callback throws on it) and adds the chunk's length to its uncompressedSize, or
\* its accounting stage takes the next chunk waiting for it and adds the chunk's
\* length to its compressedSize; the step leaves the pipeline and the whole
\* record of every other entry as they were, and the number of entries; no step
\* changes the name, method or flags of an entry.
C21_CounterIsolation ==
    [][\A k \in Indices :
         /\ k \in DOMAIN entries'
         /\ IdentityOf(entries'[k]) = IdentityOf(entries[k])
         /\ CountersOf(entries'[k]) # CountersOf(entries[k]) =>
              /\ Len(entries') = Len(entries)
              /\ streams'[k] # streams[k]
              /\ \/ /\ streams[k].source # <<>>
                    /\ \/ streams'[k].source = Tail(streams[k].source)
                       \/ streams'[k].state = "errored"
                    /\ entries'[k].uncompressedSize =
                         entries[k].uncompressedSize + Len(Head(streams[k].source))
                    /\ entries'[k].compressedSize = entries[k].compressedSize
                 \/ /\ streams[k].aq # <<>>
                    /\ streams'[k].aq = Tail(streams[k].aq)
                    /\ entries'[k].compressedSize =
                         entries[k].compressedSize + Len(Head(streams[k].aq))
                    /\ entries'[k].uncompressedSize = entries[k].uncompressedSize
                    /\ entries'[k].crc32 = entries[k].crc32
              /\ \A j \in Indices \ {k} :
                   /\ entries'[j] = entries[j]
                   /\ streams'[j] = streams[j]]_vars

\* two pipelines are under way at once: a chunk of each entry has been measured,
\* the second entry has had a chunk accounted, and the first still has a chunk
\* to come
C21_Witness ==
    /\ Len(entries) = 2
    /\ entries[1].uncompressedSize > 0
    /\ entries[2].uncompressedSize > 0
    /\ entries[2].compressedSize > 0
    /\ streams[1].source # <<>>
    /\ entries[1].crc32 # entries[2].crc32


(***************************************************************************)
(* Progress reporting during build(): responses whose Content-Length is    *)
(* absent, below ("1") and above ("5") the three bytes of the body, and    *)
(* strings, whose hint is the size of their Blob; all entries are stored.  *)
(***************************************************************************)
ProgressName == <<97>>

NextProgress ==
    \/ \E d \in Strings : AddString(ProgressName, d, EntryOptions(FALSE))
    \/ \E r \in Responses : AddResponse(ProgressName, r, EntryOptions(FALSE))
    \/ \E i \in 1..MaxEntries : Measure(i)
    \/ \E i \in 1..MaxEntries : Account(i)
    \/ \E o \in BuildOptions : Build(o)
    \/ \E i \in 1..MaxEntries : EntryPartsDone(i)
    \/ \E i \in 1..MaxEntries : EntryPartsReject(i)
    \/ BuildAssemble

SpecProgress == Init /\ [][NextProgress]_vars

\* C22: every call of options.entryProgress and of options.progress has
\* bytesWritten <= totalBytes, and from one call of options.progress to the next
\* neither the summed bytesWritten nor the summed totalBytes decreases.
C22_ProgressBounded ==
    [][/\ \A i \in DOMAIN calls'.entry :
            calls'.entry[i] # <<>> => calls'.entry[i][1] <= calls'.entry[i][2]
       /\ calls'.progress # <<>> => calls'.progress[1] <= calls'.progress[2]
       /\ calls'.nProgress > calls.nProgress /\ calls.progress # <<>> =>
            /\ calls'.progress[1] >= calls.progress[1]
            /\ calls'.progress[2] >= calls.progress[2]]_vars

\* two responses, the first announcing 1 byte and the second 5, each of 3 bytes,
\* fully measured with both callbacks given: four aggregate calls, the last (6, 8)
C22_Witness ==
    /\ Len(entries) = 2
    /\ options.progress /\ options.entryProgress
    /\ entries[1].streamSizeGuess = 1 /\ entries[1].uncompressedSize = 3
    /\ entries[2].streamSizeGuess = 5 /\ entries[2].uncompressedSize = 3
    /\ calls.nProgress = 4 /\ calls.nEntry = 4
    /\ calls.entry[1] = <<3, 3>> /\ calls.entry[2] = <<3, 5>>
    /\ calls.progress = <<6, 8>>


(***************************************************************************)
(* ZipEntry.fromHeader on the archives of the writer and on the bytes of    *)
(* read.test.ts: the header is decoded by ZipLocalHeader.fromData at the    *)
(* offset of a local file header and handed to fromHeader with that offset. *)
(***************************************************************************)
FromHeader(view, offset) ==
    LET header == fromData(view, offset)
    IN  /\ header.ok
        /\ headerRead' = [pc |-> "entry", view |-> view, offset |-> offset,
                          result |-> fromHeader(view, offset, header)]
        /\ UNCHANGED <<writerVars, reader, crcRun, rebuild>>

NextFromHeader ==
    \/ \E n \in LayoutNames, d \in LayoutStrings, o \in StringOptions : AddString(n, d, o)
    \/ \E i \in 1..MaxEntries : Measure(i)
    \/ \E i \in 1..MaxEntries : Flush(i)
    \/ \E i \in 1..MaxEntries : Account(i)
    \/ Build(NoOptions)
    \/ \E i \in 1..MaxEntries : EntryPartsDone(i)
    \/ BuildAssemble
    \/ buildState = "resolved" /\ \E offset \in 0..Len(archive) : FromHeader(archive, offset)
    \/ FromHeader(localEntryBytes, 0)

SpecFromHeader == Init /\ [][NextFromHeader]_vars

\* the three ranges behind the local header at headerRead.offset
NameAfterHeader ==
    dataBytes(headerRead.view, headerRead.offset + LocalHeaderSize,
          headerRead.result.header.fileNameLength)
ExtraAfterName ==
    dataBytes(headerRead.view,
          headerRead.offset + LocalHeaderSize + headerRead.result.header.fileNameLength,
          headerRead.result.header.extraFieldLength)
DataAfterExtra ==
    dataBytes(headerRead.view,
          headerRead.offset + LocalHeaderSize + headerRead.result.header.fileNameLength
            + headerRead.result.header.extraFieldLength,
          headerRead.result.header.compressedSize)

\* the entries ZipEntry.fromDirectoryEntry gives for the directory records of the
\* built archive that point at the offset read
DirectoryEntriesAtOffset ==
    {EntryFromDirectoryEntry(archive, ArchiveRecords[k]) :
       k \in {j \in DOMAIN ArchiveRecords :
                ArchiveRecords[j].relativeOffset = headerRead.offset}}

\* C23: the entry fromHeader returns has as rawName the fileNameLength bytes
\* behind the 30-byte header, as rawExtraField the extraFieldLength bytes behind
\* the name and as data the compressedSize bytes behind the extra field; on a
\* built archive its name and data range are those fromDirectoryEntry gives for
\* the directory record of the same offset.
C23_FromHeaderReadsEntry ==
    headerRead.pc = "entry" =>
        /\ headerRead.result.rawName = NameAfterHeader
        /\ headerRead.result.rawExtraField = ExtraAfterName
        /\ headerRead.result.compressedData = DataAfterExtra
        /\ headerRead.view = archive /\ buildState = "resolved" =>
              /\ DirectoryEntriesAtOffset # {}
              /\ \A d \in DirectoryEntriesAtOffset :
                    /\ headerRead.result.rawName = d.rawName
                    /\ headerRead.result.compressedDataOffset = d.compressedDataOffset
                    /\ headerRead.result.compressedData = d.compressedData

\* the part of C23 about the data: the range is the one behind the extra field,
\* and on a built archive the one fromDirectoryEntry gives
C23_DataRangeAgrees ==
    headerRead.pc = "entry" =>
        /\ headerRead.result.compressedData = DataAfterExtra
        /\ headerRead.view = archive /\ buildState = "resolved" =>
              /\ DirectoryEntriesAtOffset # {}
              /\ \A d \in DirectoryEntriesAtOffset :
                    /\ headerRead.result.compressedDataOffset = d.compressedDataOffset
                    /\ headerRead.result.compressedData = d.compressedData

\* what the code returns instead: the first fileNameLength bytes of the header
\* itself as the name, and the bytes that follow them as the extra field
C23_NameIsHeaderBytes ==
    headerRead.pc = "entry" =>
        /\ headerRead.result.rawName =
             dataBytes(headerRead.view, headerRead.offset, headerRead.result.header.fileNameLength)
        /\ headerRead.result.rawExtraField =
             dataBytes(headerRead.view,
                   headerRead.offset + headerRead.result.header.fileNameLength,
                   headerRead.result.header.extraFieldLength)
        /\ headerRead.result.header.fileNameLength > 0 =>
             /\ headerRead.result.rawName[1] = 80
             /\ headerRead.result.rawName # NameAfterHeader

\* fromHeader has run on the second local header of a built archive of two
\* entries, the first with data
C23_Witness ==
    /\ headerRead.pc = "entry"
    /\ headerRead.view = archive
    /\ buildState = "resolved"
    /\ Len(entries) = 2
    /\ entries[1].compressedSize > 0
    /\ headerRead.offset = PositionOfParts(2)
    /\ headerRead.result.header.compressedSize > 0

====
